---- MODULE Spec2Model ----
(***************************************************************************)
(* Model of the medical spell checker of streamlit_app.py: the edit        *)
(* distance, the candidate ranking, the tokenizer and the checker.         *)
(* A string is a sequence of one-character strings; a DataFrame of         *)
(* (word, frequency) rows is a sequence of records.                        *)
(***************************************************************************)
EXTENDS Integers, Sequences, FiniteSets, TLC

VARIABLES
    word_dict_df,      \* the DataFrame handed to SimpleSpellChecker / generate_candidates
    pc,                \* "new", then "ready" (checker constructed), "checked", "ranked" or "measured"
    self_word_dict,    \* SimpleSpellChecker.word_dict
    self_vocab,        \* SimpleSpellChecker.vocab
    arg_text,          \* the text of the last check_spelling call
    ret_errors,        \* what that call returned
    arg_word,          \* the word of the last generate_candidates call
    arg_max_distance,  \* its max_distance
    ret_candidates,    \* what that call returned
    arg_word1,         \* the operands of the last levenshtein_distance call
    arg_word2,
    ret_distance       \* what that call returned

vars == <<word_dict_df, pc, self_word_dict, self_vocab, arg_text, ret_errors,
          arg_word, arg_max_distance, ret_candidates, arg_word1, arg_word2, ret_distance>>

None == "None"

----------------------------------------------------------------------------
(* Characters and the str methods the program uses *)

UpperLetters == <<"A","B","C","D","E","F","G","H","I","J","K","L","M",
                  "N","O","P","Q","R","S","T","U","V","W","X","Y","Z">>
LowerLetters == <<"a","b","c","d","e","f","g","h","i","j","k","l","m",
                  "n","o","p","q","r","s","t","u","v","w","x","y","z">>
Digits == {"0","1","2","3","4","5","6","7","8","9"}

Range(s) == { s[k] : k \in DOMAIN s }

IsAlnum(c) == c \in Range(UpperLetters) \cup Range(LowerLetters) \cup Digits

\* str.lower() on one character
LowerOf == [c \in Range(UpperLetters) |->
                LowerLetters[CHOOSE k \in DOMAIN UpperLetters : UpperLetters[k] = c]]
char_lower(c) == IF c \in DOMAIN LowerOf THEN LowerOf[c] ELSE c

\* str.lower()
str_lower(s) == [k \in 1..Len(s) |-> char_lower(s[k])]

\* the regex class \w of a str pattern: alphanumerics and the underscore
re_word_char(c) == IsAlnum(c) \/ c = "_"

\* the regex class \s, which is also what str.split() splits on
re_space_char(c) == c \in {" ", "\t", "\n"}

\* re.sub(r'[^\w\s]', ' ', text)
re_sub_clean(text) ==
    [k \in 1..Len(text) |->
        IF ~re_word_char(text[k]) /\ ~re_space_char(text[k]) THEN " " ELSE text[k]]

\* str.split(): the maximal runs of non-whitespace characters, in order
RECURSIVE split_from(_, _, _, _)
split_from(s, k, cur, acc) ==
    IF k > Len(s) THEN (IF cur = <<>> THEN acc ELSE Append(acc, cur))
    ELSE IF re_space_char(s[k])
         THEN split_from(s, k + 1, <<>>, IF cur = <<>> THEN acc ELSE Append(acc, cur))
         ELSE split_from(s, k + 1, Append(cur, s[k]), acc)

str_split(s) == split_from(s, 1, <<>>, <<>>)

----------------------------------------------------------------------------
(* levenshtein_distance *)

min3(a, b, c) == IF a <= b /\ a <= c THEN a ELSE IF b <= c THEN b ELSE c

\* a cost that charges a matching character too
lev_cost_always(word1, word2, i, j) == 1

\* cost = 0 if word1[i-1] == word2[j-1] else 1
lev_cost(word1, word2, i, j) == IF word1[i] = word2[j] THEN 0 ELSE 1

\* Row i of the matrix is the sequence of its cells, cell [i][j] at index j + 1.
\* matrix[0][j] = j
lev_row0(len2) == [k \in 1..(len2 + 1) |-> k - 1]

\* a cell computed without the insertion term
lev_cell_no_insertion(above, left, word1, word2, i, j) ==
    min3(above[j + 1] + 1,
         above[j + 1] + 1,
         above[j] + (IF word1[i] = word2[j] THEN 0 ELSE 1))

\* matrix[i][j] = min(matrix[i-1][j] + 1, matrix[i][j-1] + 1, matrix[i-1][j-1] + cost)
lev_cell(above, left, word1, word2, i, j) ==
    min3(above[j + 1] + 1,
         left + 1,
         above[j] + lev_cost(word1, word2, i, j))

\* the inner loop over j: row holds matrix[i][0..j-1], above is matrix[i-1]
RECURSIVE lev_fill_row(_, _, _, _, _)
lev_fill_row(above, row, word1, word2, i) ==
    IF Len(row) > Len(word2) THEN row
    ELSE lev_fill_row(above,
                      Append(row, lev_cell(above, row[Len(row)], word1, word2, i, Len(row))),
                      word1, word2, i)

\* the outer loop over i; matrix[i][0] = i
RECURSIVE lev_fill(_, _, _, _)
lev_fill(above, word1, word2, i) ==
    IF i > Len(word1) THEN above
    ELSE lev_fill(lev_fill_row(above, <<i>>, word1, word2, i), word1, word2, i + 1)

\* return matrix[len1][len2]
levenshtein_distance(word1, word2) ==
    lev_fill(lev_row0(Len(word2)), word1, word2, 1)[Len(word2) + 1]

----------------------------------------------------------------------------
(* generate_candidates *)

default_max_distance == 2
top_k == 5

\* the frequency taken from the last matching row, .iloc[-1]
frequency_of_last(word_dict_df_, dict_word) ==
    word_dict_df_[CHOOSE k \in 1..Len(word_dict_df_) :
                    /\ word_dict_df_[k].word = dict_word
                    /\ \A m \in (k+1)..Len(word_dict_df_) : word_dict_df_[m].word # dict_word].frequency

\* word_dict_df[word_dict_df['word'] == dict_word]['frequency'].iloc[0]
frequency_of(word_dict_df_, dict_word) ==
    word_dict_df_[CHOOSE k \in 1..Len(word_dict_df_) :
                    /\ word_dict_df_[k].word = dict_word
                    /\ \A m \in 1..(k-1) : word_dict_df_[m].word # dict_word].frequency

\* a filter that lets the exact match through
candidate_kept_with_zero(distance, max_distance) == distance <= max_distance /\ distance >= 0

\* distance <= max_distance and distance > 0
candidate_kept(distance, max_distance) == distance <= max_distance /\ distance > 0

\* the loop over dict_words, appending the kept candidates in dictionary order
RECURSIVE candidates_loop(_, _, _, _, _)
candidates_loop(word, word_dict_df_, max_distance, k, candidates) ==
    IF k > Len(word_dict_df_) THEN candidates
    ELSE LET dict_word == word_dict_df_[k].word
             distance  == levenshtein_distance(str_lower(word), str_lower(dict_word))
         IN  candidates_loop(word, word_dict_df_, max_distance, k + 1,
                 IF candidate_kept(distance, max_distance)
                 THEN Append(candidates,
                             [word      |-> dict_word,
                              distance  |-> distance,
                              frequency |-> frequency_of(word_dict_df_, dict_word)])
                 ELSE candidates)

\* key=lambda x: (x['distance'], -x['frequency'])
sort_key(x) == <<x.distance, -x.frequency>>

\* tuple comparison k1 < k2
key_less(k1, k2) == k1[1] < k2[1] \/ (k1[1] = k2[1] /\ k1[2] < k2[2])

\* an unstable insertion: an element goes before the elements of equal key
RECURSIVE sort_insert_unstable(_, _)
sort_insert_unstable(sorted, x) ==
    IF sorted = <<>> THEN <<x>>
    ELSE IF ~key_less(<<Head(sorted).distance, -Head(sorted).frequency>>,
                      <<x.distance, -x.frequency>>)
         THEN <<x>> \o sorted
         ELSE <<Head(sorted)>> \o sort_insert_unstable(Tail(sorted), x)

\* list.sort is stable: an element goes after every element whose key is not greater
RECURSIVE sort_insert(_, _)
sort_insert(sorted, x) ==
    IF sorted = <<>> THEN <<x>>
    ELSE IF key_less(sort_key(x), sort_key(Head(sorted)))
         THEN <<x>> \o sorted
         ELSE <<Head(sorted)>> \o sort_insert(Tail(sorted), x)

RECURSIVE list_sort_from(_, _, _)
list_sort_from(list, k, sorted) ==
    IF k > Len(list) THEN sorted
    ELSE list_sort_from(list, k + 1, sort_insert(sorted, list[k]))

list_sort(list) == list_sort_from(list, 1, <<>>)

\* no truncation
truncate_nothing(list) == list

\* candidates[:5]
truncate(list) == SubSeq(list, 1, IF Len(list) < top_k THEN Len(list) ELSE top_k)

generate_candidates(word, word_dict_df_, max_distance) ==
    truncate(list_sort(candidates_loop(word, word_dict_df_, max_distance, 1, <<>>)))

----------------------------------------------------------------------------
(* SimpleSpellChecker *)

\* the vocabulary without .str.lower()
make_vocab_as_stored(word_dict_df_) == { word_dict_df_[k].word : k \in 1..Len(word_dict_df_) }

\* set(word_dict_df['word'].str.lower().tolist())
make_vocab(word_dict_df_) == { str_lower(word_dict_df_[k].word) : k \in 1..Len(word_dict_df_) }

is_word_in_dictionary(vocab, word) == str_lower(word) \in vocab

\* text = re.sub(...); words = text.lower().split()
tokenize(text) == str_split(str_lower(re_sub_clean(text)))

\* errors.append({'position': i, 'word': word, 'suggestions': candidates})
report_entry(i, word, candidates) ==
    [position |-> i, word |-> word, suggestions |-> candidates]

\* the loop over enumerate(words); i is the 0-based index
RECURSIVE check_loop(_, _, _, _, _)
check_loop(word_dict, vocab, words, i, errors) ==
    IF i >= Len(words) THEN errors
    ELSE LET word == words[i + 1]
         IN  check_loop(word_dict, vocab, words, i + 1,
                 IF word # <<>> /\ ~is_word_in_dictionary(vocab, word)
                 THEN LET candidates ==
                              generate_candidates(word, word_dict, default_max_distance)
                      IN  IF candidates # <<>>
                          THEN Append(errors, report_entry(i, word, candidates))
                          ELSE errors
                 ELSE errors)

check_spelling(word_dict, vocab, text) == check_loop(word_dict, vocab, tokenize(text), 0, <<>>)

----------------------------------------------------------------------------
(* load_sample_dictionary and the example texts of main() *)

row(word, frequency) == [word |-> word, frequency |-> frequency]

load_sample_dictionary ==
    <<
      row(<<"p","a","t","i","e","n","t">>, 15000),
      row(<<"p","a","t","i","e","n","t","s">>, 12000),
      row(<<"t","r","e","a","t","m","e","n","t">>, 8000),
      row(<<"m","e","d","i","c","a","l">>, 7000),
      row(<<"s","t","u","d","y">>, 6500),
      row(<<"d","i","s","e","a","s","e">>, 5000),
      row(<<"c","a","n","c","e","r">>, 4500),
      row(<<"d","i","a","b","e","t","e","s">>, 4000),
      row(<<"t","h","e","r","a","p","y">>, 3500),
      row(<<"c","l","i","n","i","c","a","l">>, 3000),
      row(<<"d","i","a","g","n","o","s","i","s">>, 2800),
      row(<<"s","y","m","p","t","o","m","s">>, 2500),
      row(<<"h","o","s","p","i","t","a","l">>, 2200),
      row(<<"d","o","c","t","o","r">>, 2000),
      row(<<"m","e","d","i","c","i","n","e">>, 1800),
      row(<<"s","u","r","g","e","r","y">>, 1600),
      row(<<"i","n","f","e","c","t","i","o","n">>, 1400),
      row(<<"h","e","a","l","t","h">>, 1200),
      row(<<"b","l","o","o","d">>, 1100),
      row(<<"h","e","a","r","t">>, 1000),
      row(<<"b","r","a","i","n">>, 900),
      row(<<"l","i","v","e","r">>, 800),
      row(<<"k","i","d","n","e","y">>, 750),
      row(<<"l","u","n","g">>, 700)
    >>

\* the "Quick Examples" of main()
examples ==
    <<
      <<"T","h","e"," ","p","a","t","e","i","n","t"," ","h","a","s"," ","d","i","a","b","e","t","i","s">>,
      <<"D","o","c","t","r"," ","p","r","e","s","c","r","i","b","e","d"," ","m","e","d","i","c","n","e">>,
      <<"C","l","i","n","c","a","l"," ","s","t","u","d","y"," ","r","e","s","u","l","t","s">>,
      <<"H","o","s","p","i","t","l"," ","t","r","e","a","t","m","e","n","t"," ","p","l","a","n">>
    >>

----------------------------------------------------------------------------
(* Bounds and the inputs drawn within them *)

MaxDictLen == 2        \* rows of a dictionary handed to the checker
MaxTextLen == 4        \* characters of a text handed to check_spelling
MaxRankDictLen == 6    \* rows of a dictionary handed to the ranking
MaxMixedDictLen == 3   \* rows of a dictionary that spells one word in two cases
MaxRankWordLen == 2    \* characters of a word or text handed to the ranking
MaxMaxDistance == 2    \* largest max_distance handed to generate_candidates
MaxLevLen == 3         \* characters of an operand of levenshtein_distance
MaxSampleWords == 2    \* words of a text checked against the sample dictionary

SeqsUpTo(S, n) == UNION { [1..k -> S] : k \in 0..n }

\* rows for the checker: a known word, a word stored in upper case, a far word
CheckRows == { row(<<"a">>, 1), row(<<"B">>, 2), row(<<"b","b","b">>, 1) }
CheckDicts == SeqsUpTo(CheckRows, MaxDictLen)
TextChars == {"a", "B", "1", " ", "_", "."}
Texts == SeqsUpTo(TextChars, MaxTextLen)

\* rows for the ranking: one word with two frequencies and a word stored in upper
\* case, in dictionaries long enough to overflow the five suggestions; and the same
\* with that word spelled in upper case too, in shorter dictionaries
RankRows == { row(<<"a">>, 1), row(<<"a">>, 2), row(<<"B">>, 1) }
MixedRows == RankRows \cup { row(<<"A">>, 3) }
RankDicts == SeqsUpTo(RankRows, MaxRankDictLen) \cup SeqsUpTo(MixedRows, MaxMixedDictLen)
RankWords == SeqsUpTo({"a", "A"}, MaxRankWordLen)
RankTexts == SeqsUpTo({"a", "b", " "}, MaxRankWordLen)

LevChars == {"a", "b"}
LevWords == SeqsUpTo(LevChars, MaxLevLen)

\* the words of the first three example texts, and texts made of them
ExampleWords == UNION { Range(str_split(examples[k])) : k \in 1..3 }
RECURSIVE join(_)
join(ws) == IF ws = <<>> THEN <<>>
            ELSE IF Len(ws) = 1 THEN ws[1]
            ELSE ws[1] \o <<" ">> \o join(Tail(ws))
SampleTexts == Range(examples) \cup { join(ws) : ws \in SeqsUpTo(ExampleWords, MaxSampleWords) }

----------------------------------------------------------------------------
(* The state machine *)

InitWith(dicts) ==
    /\ word_dict_df \in dicts
    /\ pc = "new"
    /\ self_word_dict = None
    /\ self_vocab = None
    /\ arg_text = None
    /\ ret_errors = None
    /\ arg_word = None
    /\ arg_max_distance = None
    /\ ret_candidates = None
    /\ arg_word1 = None
    /\ arg_word2 = None
    /\ ret_distance = None

\* a constructor that refuses an empty DataFrame
SimpleSpellChecker_init_nonempty ==
    /\ pc = "new"
    /\ Len(word_dict_df) > 0
    /\ self_word_dict' = word_dict_df
    /\ self_vocab' = { str_lower(word_dict_df[k].word) : k \in 1..Len(word_dict_df) }
    /\ pc' = "ready"
    /\ UNCHANGED <<word_dict_df, arg_text, ret_errors, arg_word, arg_max_distance,
                   ret_candidates, arg_word1, arg_word2, ret_distance>>

\* SimpleSpellChecker(word_dict_df)
SimpleSpellChecker_init ==
    /\ pc = "new"
    /\ self_word_dict' = word_dict_df
    /\ self_vocab' = make_vocab(word_dict_df)
    /\ pc' = "ready"
    /\ UNCHANGED <<word_dict_df, arg_text, ret_errors, arg_word, arg_max_distance,
                   ret_candidates, arg_word1, arg_word2, ret_distance>>

\* spell_checker.check_spelling(text), text drawn from texts
Call_check_spelling(texts) ==
    /\ pc = "ready"
    /\ \E text \in texts :
          /\ arg_text' = text
          /\ ret_errors' = check_spelling(self_word_dict, self_vocab, text)
    /\ pc' = "checked"
    /\ UNCHANGED <<word_dict_df, self_word_dict, self_vocab, arg_word, arg_max_distance,
                   ret_candidates, arg_word1, arg_word2, ret_distance>>

\* generate_candidates(word, word_dict_df, max_distance)
Call_generate_candidates ==
    /\ pc = "new"
    /\ pc' = "ranked"
    /\ \E word \in RankWords, max_distance \in 0..MaxMaxDistance :
          /\ arg_word' = word
          /\ arg_max_distance' = max_distance
          /\ ret_candidates' = generate_candidates(word, word_dict_df, max_distance)
    /\ UNCHANGED <<word_dict_df, self_word_dict, self_vocab, arg_text, ret_errors,
                   arg_word1, arg_word2, ret_distance>>

\* levenshtein_distance(word1, word2)
Call_levenshtein_distance ==
    /\ pc = "new"
    /\ pc' = "measured"
    /\ \E word1 \in LevWords, word2 \in LevWords :
          /\ arg_word1' = word1
          /\ arg_word2' = word2
          /\ ret_distance' = levenshtein_distance(word1, word2)
    /\ UNCHANGED <<word_dict_df, self_word_dict, self_vocab, arg_text, ret_errors,
                   arg_word, arg_max_distance, ret_candidates>>

\* the checker over small dictionaries and all short texts
Init == InitWith(CheckDicts)
CheckText == Call_check_spelling(Texts)
Next == SimpleSpellChecker_init \/ CheckText
Spec == Init /\ [][Next]_vars

\* the checker over dictionaries long enough to overflow the five suggestions
InitTopK == InitWith(RankDicts)
CheckRankText == Call_check_spelling(RankTexts)
NextTopK == SimpleSpellChecker_init \/ CheckRankText
SpecTopK == InitTopK /\ [][NextTopK]_vars

\* the checker of main(): the sample dictionary
InitSample == InitWith({load_sample_dictionary})
CheckSampleText == Call_check_spelling(SampleTexts)
NextSample == SimpleSpellChecker_init \/ CheckSampleText
SpecSample == InitSample /\ [][NextSample]_vars

\* the ranking alone
InitRank == InitWith(RankDicts)
NextRank == Call_generate_candidates
SpecRank == InitRank /\ [][NextRank]_vars

\* the edit distance alone
InitLev == InitWith({<<>>})
NextLev == Call_levenshtein_distance
SpecLev == InitLev /\ [][NextLev]_vars

----------------------------------------------------------------------------
(* The edit distance, stated without the matrix *)

\* the strings one insertion, deletion or substitution away from s
EditSteps(s) ==
    { SubSeq(s, 1, k) \o <<c>> \o SubSeq(s, k + 1, Len(s)) :
          k \in 0..Len(s), c \in LevChars }
    \cup { SubSeq(s, 1, k - 1) \o SubSeq(s, k + 1, Len(s)) : k \in 1..Len(s) }
    \cup { [s EXCEPT ![k] = c] : k \in 1..Len(s), c \in LevChars }

\* the number of rounds of single edits after which b is first reached from the set S;
\* the strings on the way may be one character longer than any operand
RECURSIVE EditsToReach(_, _, _)
EditsToReach(S, b, n) ==
    IF b \in S THEN n
    ELSE EditsToReach(S \cup UNION { { t \in EditSteps(s) : Len(t) <= MaxLevLen + 1 } : s \in S },
                      b, n + 1)

MinEdits(a, b) == EditsToReach({a}, b, 0)

Abs(x) == IF x < 0 THEN -x ELSE x

\* C7: levenshtein_distance(a, b) is the minimum number of single-character
\* insertions, deletions and substitutions turning a into b; so it is 0 on equal
\* words, symmetric, len(s) from the empty word, and at least the length difference.
C7_DistanceIsMinimumEdits ==
    pc = "measured" =>
        /\ ret_distance = MinEdits(arg_word1, arg_word2)
        /\ (arg_word1 = arg_word2 => ret_distance = 0)
        /\ ret_distance = levenshtein_distance(arg_word2, arg_word1)
        /\ (arg_word1 = <<>> => ret_distance = Len(arg_word2))
        /\ ret_distance >= Abs(Len(arg_word1) - Len(arg_word2))

\* two words of different lengths that need a substitution as well as an insertion
C7_Witness ==
    /\ pc = "measured"
    /\ Len(arg_word1) = 2
    /\ Len(arg_word2) = 3
    /\ ret_distance = 2

----------------------------------------------------------------------------
(* The ranking *)

\* the distance the ranking computes for row k
RowDistance(word, k) ==
    levenshtein_distance(str_lower(word), str_lower(word_dict_df[k].word))

\* the first row whose word is exactly w, and the last row whose lowercased word is w's
FirstRowOf(w) ==
    CHOOSE k \in 1..Len(word_dict_df) :
        /\ word_dict_df[k].word = w
        /\ \A m \in 1..Len(word_dict_df) : word_dict_df[m].word = w => k <= m
LastRowLike(w) ==
    CHOOSE k \in 1..Len(word_dict_df) :
        /\ str_lower(word_dict_df[k].word) = str_lower(w)
        /\ \A m \in 1..Len(word_dict_df) :
              str_lower(word_dict_df[m].word) = str_lower(w) => m <= k

\* adjacent candidates are in (distance ascending, frequency descending) order
RankedOrder(list) ==
    \A n \in 1..(Len(list) - 1) :
        \/ list[n].distance < list[n + 1].distance
        \/ /\ list[n].distance = list[n + 1].distance
           /\ list[n].frequency >= list[n + 1].frequency

\* C4: every candidate of generate_candidates has 0 < distance <= max_distance, its
\* distance is levenshtein_distance of the lowercased word and the lowercased
\* candidate, and no dictionary word equal to the lowercased input is returned.
C4_CandidateDistanceInRange ==
    pc = "ranked" =>
        \A n \in 1..Len(ret_candidates) :
            /\ ret_candidates[n].distance > 0
            /\ ret_candidates[n].distance <= arg_max_distance
            /\ ret_candidates[n].distance =
                   levenshtein_distance(str_lower(arg_word), str_lower(ret_candidates[n].word))
            /\ ret_candidates[n].word # str_lower(arg_word)
            /\ str_lower(ret_candidates[n].word) # str_lower(arg_word)

\* an upper-case input whose lowercased form is a dictionary word, and a candidate
\* stored in upper case
C4_Witness ==
    /\ pc = "ranked"
    /\ arg_word # str_lower(arg_word)
    /\ \E k \in 1..Len(word_dict_df) : word_dict_df[k].word = str_lower(arg_word)
    /\ \E n \in 1..Len(ret_candidates) :
          ret_candidates[n].word # str_lower(ret_candidates[n].word)

RowCandidate(word, k) ==
    [word      |-> word_dict_df[k].word,
     distance  |-> RowDistance(word, k),
     frequency |-> word_dict_df[FirstRowOf(word_dict_df[k].word)].frequency]

\* candidate x of row i comes before candidate y of row j in
\* (distance ascending, frequency descending, dictionary index ascending)
RowBefore(x, i, y, j) ==
    \/ x.distance < y.distance
    \/ x.distance = y.distance /\ x.frequency > y.frequency
    \/ x.distance = y.distance /\ x.frequency = y.frequency /\ i < j

\* the candidates of all rows, and those among them that generate_candidates keeps
RowCandidates(word) == [k \in 1..Len(word_dict_df) |-> RowCandidate(word, k)]
KeptOf(cand, max_distance) ==
    { k \in DOMAIN cand : cand[k].distance > 0 /\ cand[k].distance <= max_distance }

\* the place, from 1, of kept row k in that order
RowRank(cand, kept, k) ==
    1 + Cardinality({ i \in kept : RowBefore(cand[i], i, cand[k], k) })

\* C10: the result is exactly the first 5 of the kept rows in (distance ascending,
\* frequency descending, dictionary index ascending) order; equal candidates keep
\* their dictionary order and truncation comes after the ordering.
C10_StableOrderThenTruncate ==
    pc = "ranked" =>
        \A cand \in { RowCandidates(arg_word) } :
            \A kept \in { KeptOf(cand, arg_max_distance) } :
                /\ Len(ret_candidates) =
                       (IF Cardinality(kept) < 5 THEN Cardinality(kept) ELSE 5)
                /\ \A k \in kept :
                       \A r \in { RowRank(cand, kept, k) } :
                           r <= 5 => ret_candidates[r] = cand[k]

\* more than five kept rows, and two different words tied on distance and frequency of
\* which the one earlier in the dictionary is returned and the later one dropped
C10_Witness ==
    /\ pc = "ranked"
    /\ \E cand \in { RowCandidates(arg_word) } :
          \E kept \in { KeptOf(cand, arg_max_distance) } :
              /\ Cardinality(kept) > 5
              /\ \E i, j \in kept :
                    /\ i < j
                    /\ cand[i].word # cand[j].word
                    /\ cand[i].distance = cand[j].distance
                    /\ cand[i].frequency = cand[j].frequency
                    /\ RowRank(cand, kept, i) <= 5
                    /\ RowRank(cand, kept, j) > 5

----------------------------------------------------------------------------
(* The checker *)

\* the text as check_spelling splits it: cleaned and lowercased
Cleaned(text) == str_lower(re_sub_clean(text))

\* the maximal runs of non-whitespace characters of s, as <<first, last>>
TokenSpans(s) ==
    { sp \in (1..Len(s)) \X (1..Len(s)) :
          /\ sp[1] <= sp[2]
          /\ \A k \in sp[1]..sp[2] : ~re_space_char(s[k])
          /\ sp[1] = 1 \/ re_space_char(s[sp[1] - 1])
          /\ sp[2] = Len(s) \/ re_space_char(s[sp[2] + 1]) }

\* the 0-based index of a run among the runs of s
SpanIndex(s, sp) == Cardinality({ t \in TokenSpans(s) : t[1] < sp[1] })

SpanText(s, sp) == SubSeq(s, sp[1], sp[2])

\* w is the lowercased word of some row
InVocabulary(w) ==
    \E k \in 1..Len(self_word_dict) : str_lower(self_word_dict[k].word) = str_lower(w)

\* some row is within the default distance of w, and is not w
HasCandidate(w) ==
    \E k \in 1..Len(self_word_dict) :
        LET d == levenshtein_distance(str_lower(w), str_lower(self_word_dict[k].word))
        IN  d > 0 /\ d <= 2

\* C1: no report entry of check_spelling has a 'word' that equals, case-insensitively,
\* the word of a dictionary row, whatever other tokens the text holds.
C1_KnownWordNeverReported ==
    pc = "checked" =>
        \A n \in 1..Len(ret_errors) : ~InVocabulary(ret_errors[n].word)

\* a report with an entry, for a text with a token that a row spells in another case
C1_Witness ==
    /\ pc = "checked"
    /\ ret_errors # <<>>
    /\ \E sp \in TokenSpans(Cleaned(arg_text)), k \in 1..Len(self_word_dict) :
          /\ str_lower(self_word_dict[k].word) = SpanText(Cleaned(arg_text), sp)
          /\ self_word_dict[k].word # SpanText(Cleaned(arg_text), sp)

\* C5: every token of check_spelling is a non-empty, lowercased run of alphanumeric
\* characters only; '_' separates tokens and is never inside a token or a reported word.
C5_TokensAreAlphanumericRuns ==
    pc = "checked" =>
        /\ \A n \in 1..Len(tokenize(arg_text)) :
               /\ tokenize(arg_text)[n] # <<>>
               /\ \A k \in 1..Len(tokenize(arg_text)[n]) :
                      /\ IsAlnum(tokenize(arg_text)[n][k])
                      /\ char_lower(tokenize(arg_text)[n][k]) = tokenize(arg_text)[n][k]
        /\ \A n \in 1..Len(ret_errors) :
               \A k \in 1..Len(ret_errors[n].word) : ret_errors[n].word[k] # "_"

AlnumSpans(s) ==
    { sp \in (1..Len(s)) \X (1..Len(s)) :
          /\ sp[1] <= sp[2]
          /\ \A k \in sp[1]..sp[2] : IsAlnum(s[k])
          /\ sp[1] = 1 \/ ~IsAlnum(s[sp[1] - 1])
          /\ sp[2] = Len(s) \/ ~IsAlnum(s[sp[2] + 1]) }

\* the report is, in order, one entry per run of `spans` that is not in the vocabulary
\* and has a row within distance 2, with the run's 0-based index among `spans`
ReportIsTheFlagged(s, spans) ==
    LET flagged == { sp \in spans :
                         ~InVocabulary(SpanText(s, sp)) /\ HasCandidate(SpanText(s, sp)) }
    IN  /\ Len(ret_errors) = Cardinality(flagged)
        /\ \A n \in 1..(Len(ret_errors) - 1) :
               ret_errors[n].position < ret_errors[n + 1].position
        /\ \A n \in 1..Len(ret_errors) :
               \E sp \in flagged :
                   /\ ret_errors[n].position = Cardinality({ t \in spans : t[1] < sp[1] })
                   /\ ret_errors[n].word = SpanText(s, sp)

\* C8: the report holds, in ascending token order, exactly one entry per token
\* occurrence that is not in the vocabulary and has a row within distance 2; 'position'
\* is the token's 0-based index among all tokens and 'word' is the token; an unknown
\* token without a candidate has no entry, and a text without a token (empty, all
\* whitespace, all punctuation) gives an empty report. A token is a run of alphanumerics.
C8_ReportIsTheFlaggedTokens ==
    pc = "checked" =>
        /\ ReportIsTheFlagged(str_lower(arg_text), AlnumSpans(str_lower(arg_text)))
        /\ (\A k \in 1..Len(arg_text) : ~IsAlnum(arg_text[k])) => ret_errors = <<>>

\* C8 with the tokens the code makes (the runs of non-whitespace characters of the
\* cleaned text, '_' kept): one entry per flagged run, in order, with its index.
C8_ReportIsTheFlaggedRuns ==
    pc = "checked" => ReportIsTheFlagged(Cleaned(arg_text), TokenSpans(Cleaned(arg_text)))

\* a known token at position 0 followed by a flagged token at position 1
C8_KnownThenFlagged ==
    /\ pc = "checked"
    /\ LET s == Cleaned(arg_text)
       IN  /\ \E sp \in TokenSpans(s) : SpanIndex(s, sp) = 0 /\ InVocabulary(SpanText(s, sp))
           /\ Len(ret_errors) = 1
           /\ ret_errors[1].position = 1

\* an unknown token without a candidate at position 0, dropped, before a flagged token
C8_DroppedThenFlagged ==
    /\ pc = "checked"
    /\ LET s == Cleaned(arg_text)
       IN  /\ \E sp \in TokenSpans(s) :
                 /\ SpanIndex(s, sp) = 0
                 /\ ~InVocabulary(SpanText(s, sp))
                 /\ ~HasCandidate(SpanText(s, sp))
           /\ Len(ret_errors) = 1
           /\ ret_errors[1].position = 1

\* C3: every 'suggestions' list of a report has between 1 and 5 candidates, sorted by
\* distance ascending and, among equal distances, by frequency descending.
C3_SuggestionsBoundedAndSorted ==
    pc = "checked" =>
        \A n \in 1..Len(ret_errors) :
            /\ Len(ret_errors[n].suggestions) >= 1
            /\ Len(ret_errors[n].suggestions) <= 5
            /\ RankedOrder(ret_errors[n].suggestions)

\* a token with more than five rows in reach, reported with five suggestions of which
\* two neighbours differ in frequency
C3_Witness ==
    /\ pc = "checked"
    /\ \E n \in 1..Len(ret_errors) :
          /\ Len(ret_errors[n].suggestions) = 5
          /\ Cardinality({ k \in 1..Len(self_word_dict) :
                 levenshtein_distance(ret_errors[n].word, str_lower(self_word_dict[k].word))
                     \in 1..2 }) > 5
          /\ \E m \in 1..4 :
                ret_errors[n].suggestions[m].frequency >
                    ret_errors[n].suggestions[m + 1].frequency

----------------------------------------------------------------------------
(* The scenario of the first example *)

pateint == <<"p","a","t","e","i","n","t">>
patient == <<"p","a","t","i","e","n","t">>
diabetis == <<"d","i","a","b","e","t","i","s">>
diabetes == <<"d","i","a","b","e","t","e","s">>

\* the report for "The pateint has diabetis" with "patient" at distance d
ScenarioReport(d) ==
    /\ \E n \in 1..Len(ret_errors) :
          /\ ret_errors[n].word = pateint
          /\ ret_errors[n].suggestions[1].word = patient
          /\ ret_errors[n].suggestions[1].distance = d
    /\ \E n \in 1..Len(ret_errors) :
          /\ ret_errors[n].word = diabetis
          /\ ret_errors[n].suggestions[1].word = diabetes
          /\ ret_errors[n].suggestions[1].distance = 1
    /\ \A n \in 1..Len(ret_errors) :
          /\ ret_errors[n].word # <<"t","h","e">>
          /\ ret_errors[n].word # <<"h","a","s">>

\* C2 as stated: "pateint" is flagged with "patient" first at distance 1, "diabetis"
\* with "diabetes" first at distance 1, and "the" and "has" have no entry.
C2_ScenarioAtDistanceOne ==
    (pc = "checked" /\ arg_text = examples[1]) => ScenarioReport(1)

\* C2 amended: "pateint" is flagged with "patient" first at distance 2 (a transposition
\* is two substitutions), "diabetis" with "diabetes" first at distance 1, and "the" and
\* "has" have no entry.
C2_ScenarioPatientAtDistanceTwo ==
    (pc = "checked" /\ arg_text = examples[1]) => ScenarioReport(2)

\* the first example has been checked and two tokens were flagged
C2_Witness ==
    /\ pc = "checked"
    /\ arg_text = examples[1]
    /\ Len(ret_errors) = 2

====
